---- MODULE Spec2Model ----
(***************************************************************************)
(* SLS certificate and name tent generator (src/app.py).                   *)
(*                                                                         *)
(* Byte strings and Python strings are sequences of one-character strings, *)
(* so that the regular expression of the appearance-stream patch and       *)
(* str.lower() are computed character by character.                        *)
(*                                                                         *)
(* Specifications:                                                         *)
(*   Spec       the /generate handler: one batch, record by record         *)
(*   SpecPage   one call of fill_and_flatten, statement by statement       *)
(*   SpecPatch  the re.sub of the appearance-stream patch, applied twice   *)
(*   SpecHealth the /healthcheck handler                                   *)
(*   SpecFit    fill_and_flatten on a field with a rectangle               *)
(*   SpecPar    two /generate requests served at a time                    *)
(***************************************************************************)
EXTENDS Integers, Sequences, FiniteSets, TLC

VARIABLES
    \* ---- SpecPatch: the patch as a function of its inputs
    stream,          \* n_obj.get_data()
    intended_font,   \* widget_fonts[field_name][0]
    font_size,       \* widget_fonts[field_name][1], in tenths of a unit
    fixed,           \* re.sub(...) of stream
    refixed,         \* re.sub(...) of fixed
    \* ---- the process
    FONTS,           \* the module's font table: the names of the fonts loaded
    \* ---- SpecPage: one call fill_and_flatten(template_path, field_values, output_path)
    template,        \* the document at template_path, or Missing
    field_values,    \* field name -> text
    pc,              \* the statement fill_and_flatten is at
    doc,             \* the fitz document in memory
    widget_fonts,    \* field name -> <<text_font, text_fontsize>>
    writer,          \* the pypdf writer's document
    idx,             \* the annotation the patch loop is at
    files,           \* path -> document on disk, or NoFile
    bake_src,        \* the path baked from
    raised,          \* the exception that left fill_and_flatten, or NoExc
    saved,           \* history: the document as saved to tmp1
    steps,           \* history: the steps taken, in order
    \* ---- Spec and SpecHealth: the handlers
    templates,       \* template file name -> its document, or Missing
    request,         \* the form of the /generate request being served
    hpc,             \* where the /generate handler is
    loop_i,          \* i of the generating loop: the record it is at (from 0)
    pages,           \* the loop's list of page paths
    tmpfiles,        \* page path -> page, in the generator's temporary directory
    out,             \* Certificates.pdf and Name_Tents.pdf of the handler's directory
    response,        \* what the handler returned
    ffCalls,         \* history: the calls of fill_and_flatten made for the request
    failure,         \* history: the exception that ended the batch, and where
    \* ---- SpecPar: two requests served at a time
    fs,              \* path -> the file there and the batch that wrote it
    proc,            \* batch -> the locals of its thread
    health           \* what /healthcheck returned

patchVars == <<stream, intended_font, font_size, fixed, refixed>>

pageVars ==
    <<template, field_values, pc, doc, widget_fonts, writer, idx, files, bake_src,
      raised, saved, steps>>

batchVars ==
    <<request, hpc, loop_i, pages, tmpfiles, out, response, ffCalls, failure, fs, proc>>

vars == <<patchVars, FONTS, pageVars, templates, batchVars, health>>

\* A value that is no byte string: "not computed yet".
NotYet == <<"NotYet">>

\* A path that has not been chosen yet.
NoPath == "NoPath"

Min(S) == CHOOSE x \in S : \A y \in S : x <= y

\* The k-th smallest element of a set of numbers.
Nth(S, k) == CHOOSE x \in S : Cardinality({y \in S : y < x}) = k - 1

\* ------------------------------------------------------------------ text

UpperCase ==
    <<"A", "B", "C", "D", "E", "F", "G", "H", "I", "J", "K", "L", "M",
      "N", "O", "P", "Q", "R", "S", "T", "U", "V", "W", "X", "Y", "Z">>

LowerCase ==
    <<"a", "b", "c", "d", "e", "f", "g", "h", "i", "j", "k", "l", "m",
      "n", "o", "p", "q", "r", "s", "t", "u", "v", "w", "x", "y", "z">>

Digits == <<"0", "1", "2", "3", "4", "5", "6", "7", "8", "9">>

Range(f) == {f[i] : i \in DOMAIN f}

\* [A-Za-z0-9_-]
NameChars == Range(UpperCase) \cup Range(LowerCase) \cup Range(Digits) \cup {"_", "-"}

IsNameChar(c) == c \in NameChars

\* [\d.]
DigitDotChars == Range(Digits) \cup {"."}

IsDigitDot(c) == c \in DigitDotChars

\* \s of a bytes pattern
SpaceChars == {" ", "\t", "\n", "\r", "\f"}

IsSpace(c) == c \in SpaceChars

\* The font names the templates' form fields reference.
MuseoSlab_700 == <<"M", "u", "s", "e", "o", "S", "l", "a", "b", "-", "7", "0", "0">>

MuseoSlab_500Italic ==
    <<"M", "u", "s", "e", "o", "S", "l", "a", "b", "-", "5", "0", "0", "I", "t", "a", "l", "i", "c">>

MuseoSans_700 == <<"M", "u", "s", "e", "o", "S", "a", "n", "s", "-", "7", "0", "0">>

MuseoSans_500Italic ==
    <<"M", "u", "s", "e", "o", "S", "a", "n", "s", "-", "5", "0", "0", "I", "t", "a", "l", "i", "c">>

ExpectedFonts == {MuseoSlab_700, MuseoSlab_500Italic, MuseoSans_700, MuseoSans_500Italic}

Helv == <<"H", "e", "l", "v">>

\* str(n) of a non-negative int.
RECURSIVE IntStr(_)
IntStr(n) == IF n < 10 THEN <<Digits[n + 1]>> ELSE IntStr(n \div 10) \o <<Digits[(n % 10) + 1]>>

\* str(x) of a non-negative float with one decimal, x given in tenths: 24.0, 9.5.
FloatStr(t) == IntStr(t \div 10) \o <<".">> \o <<Digits[(t % 10) + 1]>>

\* ------------------------------------------------- the appearance patch

\* The end of the longest run of characters of a class that starts at i
\* (the index after its last character; i when the run is empty).
RECURSIVE NameRunEnd(_, _)
NameRunEnd(s, i) == IF i > Len(s) \/ ~IsNameChar(s[i]) THEN i ELSE NameRunEnd(s, i + 1)

RECURSIVE SpaceRunEnd(_, _)
SpaceRunEnd(s, i) == IF i > Len(s) \/ ~IsSpace(s[i]) THEN i ELSE SpaceRunEnd(s, i + 1)

RECURSIVE NumRunEnd(_, _)
NumRunEnd(s, i) == IF i > Len(s) \/ ~IsDigitDot(s[i]) THEN i ELSE NumRunEnd(s, i + 1)

\* The same for a font name class without the hyphen.
RECURSIVE PlainNameRunEnd(_, _)
PlainNameRunEnd(s, i) ==
    IF i > Len(s) \/ ~IsNameChar(s[i]) \/ s[i] = "-" THEN i ELSE PlainNameRunEnd(s, i + 1)

\* A plausible slip: the character class of the font name lacks the hyphen,
\* so the instruction the patch writes is not recognised again.
TfMatchEndNoHyphen(s, p) ==
    IF p > Len(s) \/ s[p] # "/" THEN 0
    ELSE LET a == PlainNameRunEnd(s, p + 1)
             b == SpaceRunEnd(s, a)
             c == NumRunEnd(s, b)
             d == SpaceRunEnd(s, c)
         IN  IF /\ a > p + 1
                /\ b > a
                /\ c > b
                /\ d > c
                /\ d + 1 <= Len(s)
                /\ s[d] = "T"
                /\ s[d + 1] = "f"
             THEN d + 2
             ELSE 0

\* rb"/[A-Za-z0-9_-]+\s+[\d.]+\s+Tf" matched at position p: the index after
\* the match, 0 when there is none. The classes that follow one another are
\* disjoint, so the greedy runs are the only way to match.
TfMatchEnd(s, p) ==
    IF p > Len(s) \/ s[p] # "/" THEN 0
    ELSE LET a == NameRunEnd(s, p + 1)
             b == SpaceRunEnd(s, a)
             c == NumRunEnd(s, b)
             d == SpaceRunEnd(s, c)
         IN  IF /\ a > p + 1
                /\ b > a
                /\ c > b
                /\ d > c
                /\ d + 1 <= Len(s)
                /\ s[d] = "T"
                /\ s[d + 1] = "f"
             THEN d + 2
             ELSE 0

\* The positions where the pattern matches.
TfMatches(s) == {p \in 1..Len(s) : TfMatchEnd(s, p) # 0}

\* f"/{intended_font} {font_size} Tf".encode()
TfInstruction(font, size) == <<"/">> \o font \o <<" ">> \o FloatStr(size) \o <<" ", "T", "f">>

\* The leftmost position from p on where the pattern matches, 0 when it
\* matches nowhere: the search of re.sub.
RECURSIVE FirstTfMatch(_, _)
FirstTfMatch(s, p) ==
    IF p > Len(s) THEN 0
    ELSE IF TfMatchEnd(s, p) # 0 THEN p
    ELSE FirstTfMatch(s, p + 1)

\* A plausible slip: count=1 left out, so every match is replaced.
RECURSIVE ReSubAll(_, _)
ReSubAll(s, repl) ==
    IF FirstTfMatch(s, 1) = 0 THEN s
    ELSE SubSeq(s, 1, FirstTfMatch(s, 1) - 1) \o repl
            \o ReSubAll(SubSeq(s, TfMatchEnd(s, FirstTfMatch(s, 1)), Len(s)), repl)

\* re.sub(pattern, repl, s, count=1): the leftmost match replaced, s itself
\* when there is no match.
ReSubFirst(s, repl) ==
    IF FirstTfMatch(s, 1) = 0 THEN s
    ELSE SubSeq(s, 1, FirstTfMatch(s, 1) - 1) \o repl
            \o SubSeq(s, TfMatchEnd(s, FirstTfMatch(s, 1)), Len(s))

\* The patch of one stream.
PatchStream(s, font, size) == ReSubFirst(s, TfInstruction(font, size))

\* The font name of the first font-select instruction of s.
FontNameOf(s) ==
    LET p == Min(TfMatches(s))
    IN  SubSeq(s, p + 1, NameRunEnd(s, p + 1) - 1)

\* Where the operands of the instruction whose operator starts at i begin:
\* the longest run of digits, dots and white space that ends before i.
OperandStart(s, i) ==
    Min({j \in 1..i : \A k \in j..(i - 1) : IsDigitDot(s[k]) \/ IsSpace(s[k])})

\* The operands of the position (Td) instructions of s, in order.
PositionOperands(s) ==
    LET at == {i \in 1..(Len(s) - 1) : s[i] = "T" /\ s[i + 1] = "d"}
    IN  [k \in 1..Cardinality(at) |->
            SubSeq(s, OperandStart(s, Nth(at, k)), Nth(at, k) - 1)]

\* s without the bytes p..(e - 1).
Without(s, p, e) == SubSeq(s, 1, p - 1) \o SubSeq(s, e, Len(s))

\* No patch is being tried.
PatchIdle ==
    /\ stream = <<>>
    /\ intended_font = MuseoSlab_700
    /\ font_size = 0
    /\ fixed = NotYet
    /\ refixed = NotYet

\* ------------------------------------------------------------ documents

NoExc == "NoExc"

\* Names and texts of the batches.
Ann == <<"A", "n", "n">>

Bob == <<"B", "o", "b">>

Wewikit == <<"W", "e", "w", "i", "k", "i", "t">>

SectionText == <<"S", "R", "-", "7">>

\* A widget of a template: /T, the font and size of its /DA string, its
\* value, and its appearance (/AP /N): a stream with data, no /AP at all
\* ("none"), an /AP without /N ("noN"), or a stream whose data cannot be
\* decoded ("unreadable").
Widget(name, font, size, ap, data) ==
    [widget |-> TRUE, T |-> name, font |-> font, size |-> size, value |-> <<>>,
     ap |-> ap, data |-> data]

\* An annotation that is no form field: no /T, no appearance.
LinkAnnot ==
    [widget |-> FALSE, T |-> "", font |-> <<>>, size |-> 0, value |-> <<>>,
     ap |-> "none", data |-> <<>>]

\* A single-page document: what it was made from, its annotations, whether
\* its catalog has a form definition (/AcroForm), the fonts of its page
\* resources and the permanent content stamped into the page.
Document(background, annots) ==
    [background |-> background, annots |-> annots, acroform |-> TRUE,
     fonts |-> {}, content |-> <<>>]

\* What stands where a document could: kind says why there is none.
NoDocument(kind) ==
    [background |-> kind, annots |-> <<>>, acroform |-> FALSE, fonts |-> {}, content |-> <<>>]

\* No file at the path.
Missing == NoDocument("Missing")

NoFile == NoDocument("NoFile")

\* A file whose writing failed.
Partial == NoDocument("Partial")

\* No document is open.
Closed == NoDocument("Closed")

\* %g of a size in tenths: 24, 9.5.
GStr(t) == IF t % 10 = 0 THEN IntStr(t \div 10) ELSE FloatStr(t)

\* The appearance stream Widget.update() writes for a text field: the
\* fallback font /Helv at the widget's size, the position, the text.
WidgetAppearance(size, text) ==
    <<"q", "\n", "B", "T", "\n", "/">> \o Helv \o <<" ">> \o GStr(size)
        \o <<" ", "T", "f", " ", "2", " ", "5", " ", "T", "d", " ", "(">> \o text
        \o <<")", " ", "T", "j", "\n", "E", "T", "\n", "Q", "\n">>

\* page.widgets()
WidgetsOf(d) == {i \in 1..Len(d.annots) : d.annots[i].widget}

\* widget_fonts[w.field_name] = (w.text_font, w.text_fontsize), in page order:
\* of two widgets of one name the later one stays.
WidgetFonts(d) ==
    [n \in {d.annots[i].T : i \in WidgetsOf(d)} |->
        LET last == CHOOSE i \in WidgetsOf(d) :
                        /\ d.annots[i].T = n
                        /\ \A j \in WidgetsOf(d) : d.annots[j].T = n => j <= i
        IN  <<d.annots[last].font, d.annots[last].size>>]

\* A plausible slip: the loop over FONTS.items() is left out, so no font
\* reaches the page's resources.
RegisterFontsSkipped(d, fonts) == d

\* page.insert_font(fontname=font_name, fontbuffer=font_bytes) for every
\* font of the table.
RegisterFonts(d, fonts) == [d EXCEPT !.fonts = @ \cup fonts]

\* A plausible slip: every widget is assigned, a missing key read as "".
FillWidgetsAll(d, values) ==
    [d EXCEPT !.annots =
        [i \in 1..Len(d.annots) |->
            IF d.annots[i].widget
            THEN LET v == IF d.annots[i].T \in DOMAIN values
                          THEN values[d.annots[i].T] ELSE <<>>
                 IN  [d.annots[i] EXCEPT
                        !.value = v,
                        !.ap = "stream",
                        !.data = WidgetAppearance(d.annots[i].size, v)]
            ELSE d.annots[i]]]

\* for w in page.widgets(): if w.field_name in field_values: set the value
\* and update the appearance.
FillWidgets(d, values) ==
    [d EXCEPT !.annots =
        [i \in 1..Len(d.annots) |->
            IF d.annots[i].widget /\ d.annots[i].T \in DOMAIN values
            THEN [d.annots[i] EXCEPT
                    !.value = values[d.annots[i].T],
                    !.ap = "stream",
                    !.data = WidgetAppearance(d.annots[i].size, values[d.annots[i].T])]
            ELSE d.annots[i]]]

\* A plausible slip: the font table is indexed instead of tested, and the
\* try block starts after get_data(): a missing font or an unreadable
\* stream raises.
PatchAnnotStrict(annot, wfonts, fonts) ==
    IF annot.T \notin DOMAIN wfonts THEN [annot |-> annot, exc |-> NoExc]
    ELSE IF wfonts[annot.T][1] \notin fonts THEN [annot |-> annot, exc |-> "KeyError"]
    ELSE IF annot.ap \in {"none", "noN"} THEN [annot |-> annot, exc |-> NoExc]
    ELSE IF annot.ap = "unreadable" THEN [annot |-> annot, exc |-> "PdfReadError"]
    ELSE [annot |-> [annot EXCEPT !.data = PatchStream(@, wfonts[annot.T][1], wfonts[annot.T][2])],
          exc |-> NoExc]

\* A plausible slip: the test of the font table is left out, so a stream is
\* rewritten to a font that is not loaded.
PatchAnnotAnyFont(annot, wfonts, fonts) ==
    IF annot.T \notin DOMAIN wfonts THEN [annot |-> annot, exc |-> NoExc]
    ELSE IF annot.ap \in {"none", "noN", "unreadable"} THEN [annot |-> annot, exc |-> NoExc]
    ELSE [annot |-> [annot EXCEPT !.data = PatchStream(@, wfonts[annot.T][1], wfonts[annot.T][2])],
          exc |-> NoExc]

\* The body of the patch loop for one annotation: the annotation after it
\* and the exception that leaves it. Every way out is a continue, the
\* except clause or the end of the body, so none raises.
PatchAnnot(annot, wfonts, fonts) ==
    IF annot.T \notin DOMAIN wfonts THEN [annot |-> annot, exc |-> NoExc]
    ELSE IF wfonts[annot.T][1] \notin fonts THEN [annot |-> annot, exc |-> NoExc]
    ELSE IF annot.ap = "none" THEN [annot |-> annot, exc |-> NoExc]
    ELSE IF annot.ap = "noN" THEN [annot |-> annot, exc |-> NoExc]
    ELSE IF annot.ap = "unreadable" THEN [annot |-> annot, exc |-> NoExc]
    ELSE LET fixedData == PatchStream(annot.data, wfonts[annot.T][1], wfonts[annot.T][2])
         IN  [annot |-> IF fixedData # annot.data
                        THEN [annot EXCEPT !.data = fixedData]
                        ELSE annot,
              exc |-> NoExc]

\* A plausible slip: the document is saved without bake().
BakeNot(d) == d

\* doc3.bake(): the appearance of every annotation that has one is stamped
\* into the page's permanent content, the annotations are removed and so
\* is the form definition.
Bake(d) ==
    [d EXCEPT
        !.content = @ \o [k \in 1..Cardinality({i \in 1..Len(d.annots) : d.annots[i].ap = "stream"}) |->
                            LET i == Nth({j \in 1..Len(d.annots) : d.annots[j].ap = "stream"}, k)
                            IN  [T |-> d.annots[i].T, data |-> d.annots[i].data]],
        !.annots = <<>>,
        !.acroform = FALSE]

\* ------------------------------------------------------------ idle states

\* Staff.pdf, Participant.pdf, SLS_Name_Tent.pdf
TemplateNames == {"Staff.pdf", "Participant.pdf", "SLS_Name_Tent.pdf"}

\* A response: the status, what it carries ("error", "pdf", "zip") and the
\* documents sent, by download name.
Response(status, kind, sent) == [status |-> status, kind |-> kind, files |-> sent]

NoFiles == [n \in {} |-> <<>>]

\* Nothing has been returned.
NoResponse == Response(0, "none", NoFiles)

\* No merged document at the path.
NoMerged == <<NoFile>>

\* /healthcheck has not been asked.
NoHealth ==
    [status |-> 0, ready |-> FALSE,
     templates |-> [t \in TemplateNames |-> "MISSING"],
     fonts |-> [f \in ExpectedFonts |-> "MISSING"]]

\* The requests served at a time.
Batches == {1, 2}

\* The names mkdtemp() and NamedTemporaryFile() draw from.
DirNames == {"dirA", "dirB", "dirC", "dirD"}

TmpNames == {"tmpA.pdf", "tmpB.pdf", "tmpC.pdf", "tmpD.pdf"}

\* The files of a temporary directory; "." is the directory itself.
DirFiles ==
    {".", "Certificates.pdf", "Name_Tents.pdf",
     "cert_0000.pdf", "cert_0001.pdf", "tent_0000.pdf", "tent_0001.pdf"}

\* A path: the directory and the file name; "tmp" is the directory of the
\* system's temporary files.
Paths == ({"tmp"} \X TmpNames) \cup (DirNames \X DirFiles)

NoParPath == <<"none", "none">>

\* A file: the batch that wrote it (0: there is no file) and its pages.
File(owner, pgs) == [owner |-> owner, pages |-> pgs]

NoEntry == File(0, <<>>)

\* The locals of a thread that serves no request.
ProcIdle ==
    [pc |-> "idle", kind |-> "none", entries |-> <<>>, i |-> 0,
     hdir |-> "none", gdir |-> "none", tmp1 |-> NoParPath, tmp2 |-> NoParPath,
     bake_src |-> NoParPath, doc |-> Closed, pages |-> <<>>, sent |-> <<>>,
     exc |-> NoExc, foreign |-> FALSE]

ParIdle ==
    /\ fs = [p \in Paths |-> NoEntry]
    /\ proc = [b \in Batches |-> ProcIdle]

\* No request is being served.
BatchIdle ==
    /\ ParIdle
    /\ request = [entries |-> <<>>, section |-> <<>>, output_type |-> "none"]
    /\ hpc = "idle"
    /\ loop_i = 0
    /\ pages = <<>>
    /\ tmpfiles = [p \in {} |-> NoFile]
    /\ out = [n \in {"Certificates.pdf", "Name_Tents.pdf"} |-> NoMerged]
    /\ response = NoResponse
    /\ ffCalls = 0
    /\ failure = [exc |-> NoExc, at |-> "none", record |-> 0]

\* ------------------------------------------------------------- SpecPage

\* Bound: a template has at most MaxAnnots annotations.
MaxAnnots == 2

\* The annotations a template is made of: widgets with and without an
\* appearance of every shape the patch loop tells apart, and a link.
AnnotCatalogue ==
    { Widget("Name", MuseoSlab_700, 240, "stream",
             <<"/">> \o MuseoSlab_700 \o <<" ", "2", "4", " ", "T", "f", " ", "2", " ", "5", " ", "T", "d", " ">>),
      Widget("Section", MuseoSans_500Italic, 120, "stream",
             <<"/", "H", "e", "l", "v", " ", "1", "2", " ", "T", "f", " ", "q", " ",
               "/", "H", "e", "l", "v", " ", "9", " ", "T", "f">>),
      Widget("Lodge", MuseoSans_700, 95, "noN", <<>>),
      Widget("Seal", MuseoSlab_500Italic, 120, "unreadable", <<>>),
      Widget("Title", MuseoSans_700, 240, "stream", <<"q", "\n", "Q", "\n">>),
      Widget("Date", Helv, 0, "none", <<>>),
      LinkAnnot }

RECURSIVE AnnotLists(_)
AnnotLists(n) ==
    IF n = 0 THEN {<<>>}
    ELSE AnnotLists(n - 1) \cup {Append(a, x) : a \in AnnotLists(n - 1), x \in AnnotCatalogue}

PageTemplates == {Document("Template.pdf", a) : a \in AnnotLists(MaxAnnots)}

\* {"Name": entry["name"], "Section": section}
CertValues(name, section) == [n \in {"Name", "Section"} |-> IF n = "Name" THEN name ELSE section]

\* {"Name": name_value, "Lodge": lodge_value}
TentValues(name_value, lodge_value) ==
    [n \in {"Name", "Lodge"} |-> IF n = "Name" THEN name_value ELSE lodge_value]

PagePaths == {"tmp1", "tmp2", "out"}

\* No call of fill_and_flatten is under way.
PageIdle ==
    /\ template = Missing
    /\ field_values = <<>>
    /\ pc = "idle"
    /\ doc = Closed
    /\ widget_fonts = <<>>
    /\ writer = Closed
    /\ idx = 0
    /\ files = [p \in PagePaths |-> NoFile]
    /\ bake_src = NoPath
    /\ raised = NoExc
    /\ saved = Closed
    /\ steps = <<>>

InitPage ==
    /\ FONTS \in SUBSET ExpectedFonts
    /\ template \in {Missing} \cup PageTemplates
    /\ field_values \in {CertValues(Ann, SectionText), TentValues(<<"\n">> \o Ann, Wewikit)}
    /\ pc = "open"
    /\ doc = Closed
    /\ widget_fonts = <<>>
    /\ writer = Closed
    /\ idx = 0
    /\ files = [p \in PagePaths |-> NoFile]
    /\ bake_src = NoPath
    /\ raised = NoExc
    /\ saved = Closed
    /\ steps = <<>>
    /\ PatchIdle
    /\ templates = [t \in TemplateNames |-> Missing]
    /\ BatchIdle
    /\ health = NoHealth

\* The exception exc leaves fill_and_flatten.
Raise(exc) ==
    /\ raised' = exc
    /\ pc' = "raised"

\* doc = fitz.open(template_path); page = doc[0]; widget_fonts = {...}
FF_Open ==
    /\ pc = "open"
    /\ IF template = Missing
       THEN /\ Raise("FileNotFoundError")
            /\ UNCHANGED <<doc, widget_fonts, steps>>
       ELSE /\ doc' = template
            /\ widget_fonts' = WidgetFonts(template)
            /\ pc' = "register"
            /\ steps' = Append(steps, "open")
            /\ UNCHANGED raised
    /\ UNCHANGED <<templates, batchVars, health, patchVars, FONTS, template, field_values, writer, idx, files, bake_src, saved>>

\* for font_name, font_bytes in FONTS.items(): page.insert_font(...)
FF_Register ==
    /\ pc = "register"
    /\ doc' = RegisterFonts(doc, FONTS)
    /\ pc' = "fill"
    /\ steps' = Append(steps, "register")
    /\ UNCHANGED <<templates, batchVars, health, patchVars, FONTS, template, field_values, widget_fonts, writer, idx, files,
                   bake_src, raised, saved>>

\* for w in page.widgets(): ...
FF_Fill ==
    /\ pc = "fill"
    /\ doc' = FillWidgets(doc, field_values)
    /\ pc' = "save1"
    /\ steps' = Append(steps, "fill")
    /\ UNCHANGED <<templates, batchVars, health, patchVars, FONTS, template, field_values, widget_fonts, writer, idx, files,
                   bake_src, raised, saved>>

\* tmp1 = NamedTemporaryFile(delete=False); doc.save(tmp1.name); doc.close()
\* The file exists from its creation on; the save may fail.
FF_SaveTmp1 ==
    /\ pc = "save1"
    /\ \E ok \in BOOLEAN :
        IF ok
        THEN /\ files' = [files EXCEPT !["tmp1"] = doc]
             /\ saved' = doc
             /\ doc' = Closed
             /\ pc' = "branch"
             /\ steps' = Append(steps, "save tmp1")
             /\ UNCHANGED raised
        ELSE /\ files' = [files EXCEPT !["tmp1"] = Partial]
             /\ Raise("OSError")
             /\ UNCHANGED <<saved, doc, steps>>
    /\ UNCHANGED <<templates, batchVars, health, patchVars, FONTS, template, field_values, widget_fonts, writer, idx, bake_src>>

\* if FONTS: reader = PdfReader(tmp1.name); writer.append(reader)
\* Whether append() carries the form definition over depends on the pypdf
\* release.
FF_ReadTmp1 ==
    /\ pc = "branch"
    /\ FONTS # {}
    /\ \E form \in BOOLEAN :
        writer' = [files["tmp1"] EXCEPT !.acroform = @ /\ form]
    /\ idx' = 1
    /\ pc' = "patch"
    /\ steps' = Append(steps, "read tmp1")
    /\ UNCHANGED <<templates, batchVars, health, patchVars, FONTS, template, field_values, doc, widget_fonts, files, bake_src,
                   raised, saved>>

\* A plausible slip: without fonts the saved document is taken for the
\* page as it is, without bake().
FF_NoFontsUnbaked ==
    /\ pc = "branch"
    /\ FONTS = {}
    /\ bake_src' = "tmp1"
    /\ files' = [files EXCEPT !["out"] = files["tmp1"], !["tmp1"] = NoFile]
    /\ pc' = "done"
    /\ steps' = steps \o <<"no fonts", "save out", "unlink tmp1">>
    /\ UNCHANGED <<templates, batchVars, health, patchVars, FONTS, template, field_values, doc, widget_fonts, writer, idx,
                   raised, saved>>

\* else: bake_src = tmp1.name
FF_NoFonts ==
    /\ pc = "branch"
    /\ FONTS = {}
    /\ bake_src' = "tmp1"
    /\ pc' = "bake"
    /\ steps' = Append(steps, "no fonts")
    /\ UNCHANGED <<templates, batchVars, health, patchVars, FONTS, template, field_values, doc, widget_fonts, writer, idx, files,
                   raised, saved>>

\* One turn of: for annot_ref in page_w.get("/Annots", []): ...
FF_PatchAnnot ==
    /\ pc = "patch"
    /\ idx <= Len(writer.annots)
    /\ LET r == PatchAnnot(writer.annots[idx], widget_fonts, FONTS)
       IN  IF r.exc = NoExc
           THEN /\ writer' = [writer EXCEPT !.annots[idx] = r.annot]
                /\ idx' = idx + 1
                /\ steps' = Append(steps, "patch")
                /\ UNCHANGED <<pc, raised>>
           ELSE /\ Raise(r.exc)
                /\ UNCHANGED <<writer, idx, steps>>
    /\ UNCHANGED <<templates, batchVars, health, patchVars, FONTS, template, field_values, doc, widget_fonts, files, bake_src, saved>>

\* A plausible slip: os.unlink(tmp1.name) is left out after the patched copy
\* is written.
FF_WriteTmp2KeepTmp1 ==
    /\ pc = "patch"
    /\ idx > Len(writer.annots)
    /\ \E ok \in BOOLEAN :
        IF ok
        THEN /\ files' = [files EXCEPT !["tmp2"] = writer]
             /\ bake_src' = "tmp2"
             /\ pc' = "bake"
             /\ steps' = steps \o <<"write tmp2">>
             /\ UNCHANGED raised
        ELSE /\ files' = [files EXCEPT !["tmp2"] = Partial]
             /\ Raise("OSError")
             /\ UNCHANGED <<bake_src, steps>>
    /\ UNCHANGED <<templates, batchVars, health, patchVars, FONTS, template, field_values, doc, widget_fonts, writer, idx, saved>>

\* tmp2 = NamedTemporaryFile(delete=False); writer.write(f);
\* os.unlink(tmp1.name); bake_src = tmp2.name
FF_WriteTmp2 ==
    /\ pc = "patch"
    /\ idx > Len(writer.annots)
    /\ \E ok \in BOOLEAN :
        IF ok
        THEN /\ files' = [files EXCEPT !["tmp2"] = writer, !["tmp1"] = NoFile]
             /\ bake_src' = "tmp2"
             /\ pc' = "bake"
             /\ steps' = steps \o <<"write tmp2", "unlink tmp1">>
             /\ UNCHANGED raised
        ELSE /\ files' = [files EXCEPT !["tmp2"] = Partial]
             /\ Raise("OSError")
             /\ UNCHANGED <<bake_src, steps>>
    /\ UNCHANGED <<templates, batchVars, health, patchVars, FONTS, template, field_values, doc, widget_fonts, writer, idx, saved>>

\* doc3 = fitz.open(bake_src); doc3.bake(); doc3.save(output_path, ...);
\* doc3.close(); os.unlink(bake_src)
FF_Bake ==
    /\ pc = "bake"
    /\ \E ok \in BOOLEAN :
        IF ok
        THEN /\ files' = [files EXCEPT !["out"] = Bake(files[bake_src]), ![bake_src] = NoFile]
             /\ pc' = "done"
             /\ steps' = steps \o <<"bake", "save out", "unlink " \o bake_src>>
             /\ UNCHANGED raised
        ELSE /\ Raise("OSError")
             /\ UNCHANGED <<files, steps>>
    /\ UNCHANGED <<templates, batchVars, health, patchVars, FONTS, template, field_values, doc, widget_fonts, writer, idx,
                   bake_src, saved>>

NextPage ==
    \/ FF_Open
    \/ FF_Register
    \/ FF_Fill
    \/ FF_SaveTmp1
    \/ FF_ReadTmp1
    \/ FF_NoFonts
    \/ FF_PatchAnnot
    \/ FF_WriteTmp2
    \/ FF_Bake

SpecPage == InitPage /\ [][NextPage]_vars

\* ------------------------------------------------------------- handlers

\* str.lower()
Lower(s) ==
    [k \in 1..Len(s) |->
        IF \E j \in 1..Len(UpperCase) : UpperCase[j] = s[k]
        THEN LowerCase[CHOOSE j \in 1..Len(UpperCase) : UpperCase[j] = s[k]]
        ELSE s[k]]

\* entry["role"].lower() == "staff"
IsStaff(entry) == Lower(entry.role) = <<"s", "t", "a", "f", "f">>

\* for annot_ref in ...: the patch of every annotation, and the first
\* exception a turn raises.
PatchAll(d, wfonts, fonts) ==
    [d EXCEPT !.annots = [k \in 1..Len(d.annots) |-> PatchAnnot(d.annots[k], wfonts, fonts).annot]]

PatchExc(d, wfonts, fonts) ==
    LET bad == {k \in 1..Len(d.annots) : PatchAnnot(d.annots[k], wfonts, fonts).exc # NoExc}
    IN  IF bad = {} THEN NoExc ELSE PatchAnnot(d.annots[Min(bad)], wfonts, fonts).exc

\* A plausible slip: the filled document is saved over the template
\* (doc.save(template_path) or doc.saveIncr()) instead of to tmp1.
fill_and_flatten_in_place(tpl, values, fonts, io_ok) ==
    IF tpl = Missing THEN [exc |-> "FileNotFoundError", page |-> NoFile, template |-> tpl]
    ELSE IF ~io_ok THEN [exc |-> "OSError", page |-> NoFile, template |-> tpl]
    ELSE LET filled == FillWidgets(RegisterFonts(tpl, fonts), values)
         IN  IF fonts = {} THEN [exc |-> NoExc, page |-> Bake(filled), template |-> filled]
             ELSE IF PatchExc(filled, WidgetFonts(tpl), fonts) # NoExc
             THEN [exc |-> PatchExc(filled, WidgetFonts(tpl), fonts), page |-> NoFile,
                   template |-> filled]
             ELSE [exc |-> NoExc, page |-> Bake(PatchAll(filled, WidgetFonts(tpl), fonts)),
                   template |-> filled]

\* fill_and_flatten(template_path, field_values, output_path) as one call:
\* the exception it raises, the page it leaves at output_path and the file
\* at template_path after it: every save of the call goes to tmp1, tmp2 or
\* output_path. io_ok says whether the file system lets every write of the
\* call succeed.
fill_and_flatten(tpl, values, fonts, io_ok) ==
    IF tpl = Missing THEN [exc |-> "FileNotFoundError", page |-> NoFile, template |-> tpl]
    ELSE IF ~io_ok THEN [exc |-> "OSError", page |-> NoFile, template |-> tpl]
    ELSE LET filled == FillWidgets(RegisterFonts(tpl, fonts), values)
         IN  IF fonts = {} THEN [exc |-> NoExc, page |-> Bake(filled), template |-> tpl]
             ELSE IF PatchExc(filled, WidgetFonts(tpl), fonts) # NoExc
             THEN [exc |-> PatchExc(filled, WidgetFonts(tpl), fonts), page |-> NoFile,
                   template |-> tpl]
             ELSE [exc |-> NoExc, page |-> Bake(PatchAll(filled, WidgetFonts(tpl), fonts)),
                   template |-> tpl]

\* A plausible slip: the pages are inserted at the front.
build_merged_pdf_reversed(page_paths, dir) ==
    [k \in 1..Len(page_paths) |-> dir[page_paths[Len(page_paths) + 1 - k]]]

\* build_merged_pdf(page_paths, output_path): the merged document, a page
\* per path, in the order of page_paths.
build_merged_pdf(page_paths, dir) == [k \in 1..Len(page_paths) |-> dir[page_paths[k]]]

\* os.path.join(tmpdir, f"cert_{i:04d}.pdf"), f"tent_{i:04d}.pdf"
PagePath(kind, n) == <<kind, n>>

\* The template and the field values of record e of a certificate batch.
CertTemplate(e) == IF IsStaff(e) THEN "Staff.pdf" ELSE "Participant.pdf"

\* The field values of record e of a name tent batch.
TentValuesOf(e) ==
    TentValues(<<"\n">> \o e.name,
               IF IsStaff(e) THEN <<"S", "T", "A", "F", "F", " ", "-", " ">> \o e.lodge ELSE e.lodge)

\* A plausible slip: the templates are not looked for before generating.
missing_templates_unchecked(tpls) == {}

\* [name for name, path in ... if not os.path.exists(path)]
missing_templates(tpls) == {t \in TemplateNames : tpls[t] = Missing}

\* The layouts of the three templates: what their form fields are.
TemplateLayout(t) ==
    IF t = "SLS_Name_Tent.pdf"
    THEN Document(t, << Widget("Name", MuseoSans_700, 240, "stream",
                               <<"/", "H", "e", "l", "v", " ", "2", "4", " ", "T", "f">>),
                        Widget("Lodge", MuseoSans_500Italic, 120, "noN", <<>>) >>)
    ELSE Document(t, << Widget("Name", MuseoSlab_700, 240, "stream",
                               <<"/">> \o MuseoSlab_700 \o <<" ", "2", "4", " ", "T", "f">>),
                        Widget("Section", MuseoSlab_500Italic, 120, "none", <<>>) >>)

\* Bound: a batch has at most MaxEntries records.
MaxEntries == 2

\* The records parse_csv and parse_plain hand over.
EntrySet ==
    {[name |-> n, lodge |-> Wewikit, role |-> r] :
        n \in {Ann, Bob},
        r \in { <<"S", "t", "a", "f", "f">>, <<"S", "T", "A", "F", "F">>,
                <<"P", "a", "r", "t", "i", "c", "i", "p", "a", "n", "t">> }}

RECURSIVE EntryLists(_)
EntryLists(n) ==
    IF n = 0 THEN {<<>>}
    ELSE EntryLists(n - 1) \cup {Append(l, e) : l \in EntryLists(n - 1), e \in EntrySet}

\* request.form.get("output_type", "both"): the three the page offers and
\* one it does not.
OutputTypes == {"certificates", "tents", "both", "other"}

\* The font tables of the batches: none, two and all of the fonts.
FontTables == {{}, {MuseoSlab_700, MuseoSans_700}, ExpectedFonts}

Init ==
    /\ FONTS \in FontTables
    /\ templates \in [TemplateNames -> {Missing, TemplateLayout("Staff.pdf"),
                                        TemplateLayout("Participant.pdf"),
                                        TemplateLayout("SLS_Name_Tent.pdf")}]
    /\ \A t \in TemplateNames : templates[t] \in {Missing, TemplateLayout(t)}
    /\ BatchIdle
    /\ health = NoHealth
    /\ PageIdle
    /\ PatchIdle

\* except Exception as e: return jsonify(error=...), 500. Both temporary
\* directories are removed on the way out.
Fail(exc, at) ==
    /\ failure' = [exc |-> exc, at |-> at, record |-> loop_i]
    /\ response' = Response(500, "error", NoFiles)
    /\ hpc' = "done"
    /\ tmpfiles' = [p \in {} |-> NoFile]
    /\ out' = [n \in DOMAIN out |-> NoMerged]
    /\ pages' = <<>>

\* generate(), up to the try block: the templates are looked for, the form
\* is read, the input is parsed.
Generate_Receive ==
    /\ hpc = "idle"
    /\ \E entries \in EntryLists(MaxEntries), output_type \in OutputTypes :
        /\ request' = [entries |-> entries, section |-> SectionText, output_type |-> output_type]
        /\ IF missing_templates(templates) # {}
           THEN /\ response' = Response(500, "error", NoFiles)
                /\ hpc' = "done"
           ELSE IF entries = <<>>
           THEN /\ response' = Response(400, "error", NoFiles)
                /\ hpc' = "done"
           ELSE /\ hpc' = IF output_type \in {"certificates", "both"} THEN "certs"
                          ELSE IF output_type = "tents" THEN "tents"
                          ELSE "respond"
                /\ UNCHANGED response
    /\ UNCHANGED <<loop_i, pages, tmpfiles, out, ffCalls, failure>>
    /\ UNCHANGED <<patchVars, FONTS, pageVars, templates, health, fs, proc>>

\* A plausible slip: a record that fails is logged and skipped.
Cert_RecordSkipFailed ==
    /\ hpc = "certs"
    /\ loop_i < Len(request.entries)
    /\ ffCalls' = ffCalls + 1
    /\ \E io_ok \in BOOLEAN :
        LET e == request.entries[loop_i + 1]
            r == fill_and_flatten(templates[CertTemplate(e)],
                                  CertValues(e.name, request.section), FONTS, io_ok)
        IN  /\ templates' = [templates EXCEPT ![CertTemplate(e)] = r.template]
            /\ IF r.exc = NoExc
               THEN /\ tmpfiles' = [p \in DOMAIN tmpfiles \cup {PagePath("cert", loop_i)} |->
                                       IF p = PagePath("cert", loop_i) THEN r.page ELSE tmpfiles[p]]
                    /\ pages' = Append(pages, PagePath("cert", loop_i))
                    /\ loop_i' = loop_i + 1
                    /\ UNCHANGED <<hpc, response, out, failure>>
               ELSE /\ failure' = [exc |-> r.exc, at |-> "certs", record |-> loop_i]
                    /\ loop_i' = loop_i + 1
                    /\ UNCHANGED <<hpc, response, out, tmpfiles, pages>>
    /\ UNCHANGED <<request>>
    /\ UNCHANGED <<patchVars, FONTS, pageVars, health, fs, proc>>

\* One turn of the loop of generate_certificates.
Cert_Record ==
    /\ hpc = "certs"
    /\ loop_i < Len(request.entries)
    /\ ffCalls' = ffCalls + 1
    /\ \E io_ok \in BOOLEAN :
        LET e == request.entries[loop_i + 1]
            r == fill_and_flatten(templates[CertTemplate(e)],
                                  CertValues(e.name, request.section), FONTS, io_ok)
        IN  /\ templates' = [templates EXCEPT ![CertTemplate(e)] = r.template]
            /\ IF r.exc = NoExc
               THEN /\ tmpfiles' = [p \in DOMAIN tmpfiles \cup {PagePath("cert", loop_i)} |->
                                       IF p = PagePath("cert", loop_i) THEN r.page ELSE tmpfiles[p]]
                    /\ pages' = Append(pages, PagePath("cert", loop_i))
                    /\ loop_i' = loop_i + 1
                    /\ UNCHANGED <<hpc, response, out, failure>>
               ELSE /\ Fail(r.exc, "certs")
                    /\ UNCHANGED loop_i
    /\ UNCHANGED <<request>>
    /\ UNCHANGED <<patchVars, FONTS, pageVars, health, fs, proc>>

\* build_merged_pdf(pages, output_path) of generate_certificates, and the
\* end of its temporary directory.
Cert_Merge ==
    /\ hpc = "certs"
    /\ loop_i = Len(request.entries)
    /\ \E io_ok \in BOOLEAN :
        IF io_ok
        THEN /\ out' = [out EXCEPT !["Certificates.pdf"] = build_merged_pdf(pages, tmpfiles)]
             /\ tmpfiles' = [p \in {} |-> NoFile]
             /\ pages' = <<>>
             /\ hpc' = IF request.output_type = "both" THEN "tents" ELSE "respond"
             /\ UNCHANGED <<response, failure>>
        ELSE Fail("OSError", "certs merge")
    /\ loop_i' = 0
    /\ UNCHANGED <<request, ffCalls>>
    /\ UNCHANGED <<patchVars, FONTS, pageVars, templates, health, fs, proc>>

\* One turn of the loop of generate_name_tents.
Tent_Record ==
    /\ hpc = "tents"
    /\ loop_i < Len(request.entries)
    /\ ffCalls' = ffCalls + 1
    /\ \E io_ok \in BOOLEAN :
        LET e == request.entries[loop_i + 1]
            r == fill_and_flatten(templates["SLS_Name_Tent.pdf"], TentValuesOf(e), FONTS, io_ok)
        IN  /\ templates' = [templates EXCEPT !["SLS_Name_Tent.pdf"] = r.template]
            /\ IF r.exc = NoExc
               THEN /\ tmpfiles' = [p \in DOMAIN tmpfiles \cup {PagePath("tent", loop_i)} |->
                                       IF p = PagePath("tent", loop_i) THEN r.page ELSE tmpfiles[p]]
                    /\ pages' = Append(pages, PagePath("tent", loop_i))
                    /\ loop_i' = loop_i + 1
                    /\ UNCHANGED <<hpc, response, out, failure>>
               ELSE /\ Fail(r.exc, "tents")
                    /\ UNCHANGED loop_i
    /\ UNCHANGED <<request>>
    /\ UNCHANGED <<patchVars, FONTS, pageVars, health, fs, proc>>

\* build_merged_pdf(pages, output_path) of generate_name_tents, and the end
\* of its temporary directory.
Tent_Merge ==
    /\ hpc = "tents"
    /\ loop_i = Len(request.entries)
    /\ \E io_ok \in BOOLEAN :
        IF io_ok
        THEN /\ out' = [out EXCEPT !["Name_Tents.pdf"] = build_merged_pdf(pages, tmpfiles)]
             /\ tmpfiles' = [p \in {} |-> NoFile]
             /\ pages' = <<>>
             /\ hpc' = "respond"
             /\ UNCHANGED <<response, failure>>
        ELSE Fail("OSError", "tents merge")
    /\ loop_i' = 0
    /\ UNCHANGED <<request, ffCalls>>
    /\ UNCHANGED <<patchVars, FONTS, pageVars, templates, health, fs, proc>>

\* The send_file calls of generate(): one document, or the zip of both; a
\* document that was not generated cannot be zipped.
Generate_Respond ==
    /\ hpc = "respond"
    /\ IF request.output_type = "certificates"
       THEN /\ response' = Response(200, "pdf",
                    [n \in {"Certificates.pdf"} |-> out["Certificates.pdf"]])
            /\ UNCHANGED failure
       ELSE IF request.output_type = "tents"
       THEN /\ response' = Response(200, "pdf", [n \in {"Name_Tents.pdf"} |-> out["Name_Tents.pdf"]])
            /\ UNCHANGED failure
       ELSE IF \E n \in DOMAIN out : out[n] = NoMerged
       THEN /\ response' = Response(500, "error", NoFiles)
            /\ failure' = [exc |-> "FileNotFoundError", at |-> "zip", record |-> 0]
       ELSE /\ response' = Response(200, "zip", out)
            /\ UNCHANGED failure
    /\ hpc' = "done"
    /\ out' = [n \in DOMAIN out |-> NoMerged]
    /\ UNCHANGED <<request, loop_i, pages, tmpfiles, ffCalls>>
    /\ UNCHANGED <<patchVars, FONTS, pageVars, templates, health, fs, proc>>

Next ==
    \/ Generate_Receive
    \/ Cert_Record
    \/ Cert_Merge
    \/ Tent_Record
    \/ Tent_Merge
    \/ Generate_Respond

Spec == Init /\ [][Next]_vars

\* ----------------------------------------------------------- SpecHealth

\* A plausible slip: the report is not ready unless all four fonts are
\* loaded.
healthcheck_fonts_required(tpls, fonts) ==
    LET all_ok == (\A t \in TemplateNames : tpls[t] # Missing) /\ fonts = ExpectedFonts
    IN  [status |-> IF all_ok THEN 200 ELSE 500,
         ready |-> all_ok,
         templates |-> [t \in TemplateNames |-> IF tpls[t] # Missing THEN "OK" ELSE "MISSING"],
         fonts |-> [f \in ExpectedFonts |-> IF f \in fonts THEN "loaded" ELSE "MISSING"]]

\* healthcheck(): the report and its status.
healthcheck(tpls, fonts) ==
    LET all_ok == \A t \in TemplateNames : tpls[t] # Missing
    IN  [status |-> IF all_ok THEN 200 ELSE 500,
         ready |-> all_ok,
         templates |-> [t \in TemplateNames |-> IF tpls[t] # Missing THEN "OK" ELSE "MISSING"],
         fonts |-> [f \in ExpectedFonts |-> IF f \in fonts THEN "loaded" ELSE "MISSING"]]

InitHealth ==
    /\ FONTS \in SUBSET ExpectedFonts
    /\ templates \in [TemplateNames -> {Missing, TemplateLayout("Staff.pdf"),
                                        TemplateLayout("Participant.pdf"),
                                        TemplateLayout("SLS_Name_Tent.pdf")}]
    /\ \A t \in TemplateNames : templates[t] \in {Missing, TemplateLayout(t)}
    /\ health = NoHealth
    /\ BatchIdle
    /\ PageIdle
    /\ PatchIdle

Healthcheck ==
    /\ health = NoHealth
    /\ health' = healthcheck(templates, FONTS)
    /\ UNCHANGED <<patchVars, FONTS, pageVars, templates, batchVars>>

NextHealth == Healthcheck

SpecHealth == InitHealth /\ [][NextHealth]_vars

\* ---------------------------------------------------------------- claims

\* The five letters of "staff", in either case.
IsStaffSpelling(role) ==
    /\ Len(role) = 5
    /\ \A k \in 1..5 : role[k] \in {<<"s", "t", "a", "f", "f">>[k], <<"S", "T", "A", "F", "F">>[k]}

\* sub occurs in s.
Contains(s, sub) == \E j \in 1..(Len(s) - Len(sub) + 1) : SubSeq(s, j, j + Len(sub) - 1) = sub

\* Page k of the merged document m of a batch is the page of record k.
PageOfRecord(n, pg, e) ==
    IF n = "Certificates.pdf"
    THEN LET t == IF IsStaffSpelling(e.role) THEN "Staff.pdf" ELSE "Participant.pdf"
         IN  /\ pg.background = t
             /\ pg = fill_and_flatten(templates[t], CertValues(e.name, request.section),
                                      FONTS, TRUE).page
             /\ \E c \in Range(pg.content) : c.T = "Name" /\ Contains(c.data, e.name)
    ELSE LET lodge == IF IsStaffSpelling(e.role)
                      THEN <<"S", "T", "A", "F", "F", " ", "-", " ">> \o e.lodge
                      ELSE e.lodge
         IN  /\ pg.background = "SLS_Name_Tent.pdf"
             /\ pg = fill_and_flatten(templates["SLS_Name_Tent.pdf"],
                                      TentValues(<<"\n">> \o e.name, lodge), FONTS, TRUE).page
             /\ \E c \in Range(pg.content) : c.T = "Name" /\ Contains(c.data, <<"\n">> \o e.name)
             /\ \E c \in Range(pg.content) : c.T = "Lodge" /\ Contains(c.data, <<"(">> \o lodge \o <<")">>)

PagesInRecordOrder(n, m) ==
    /\ Len(m) = Len(request.entries)
    /\ \A k \in 1..Len(m) : PageOfRecord(n, m[k], request.entries[k])

\* C1: a merged document, on disk or sent, has a page per record, and page
\* k is the page fill_and_flatten makes of record k: the record's own name
\* (and lodge), on the Staff template exactly when the role is "staff" in
\* any case, else on the Participant template; a name tent on the name tent
\* template.
C1_PagesInRecordOrder ==
    /\ \A n \in DOMAIN out : out[n] # NoMerged => PagesInRecordOrder(n, out[n])
    /\ \A n \in DOMAIN response.files : PagesInRecordOrder(n, response.files[n])

\* C1 witness: both documents were sent for two records of different names,
\* the first of the staff, the second not.
C1_Witness ==
    /\ response.kind = "zip"
    /\ Len(request.entries) = 2
    /\ request.entries[1].name # request.entries[2].name
    /\ IsStaffSpelling(request.entries[1].role)
    /\ ~IsStaffSpelling(request.entries[2].role)

\* C4: once a record or a merge has failed the handler is done with status
\* 500 and no file; a response with a file has every page of every record;
\* no merged document of fewer pages than records exists at any time.
C4_BatchAllOrNothing ==
    /\ failure.exc # NoExc =>
        /\ hpc = "done"
        /\ response = Response(500, "error", NoFiles)
    /\ response.kind \in {"pdf", "zip"} =>
        /\ failure.exc = NoExc
        /\ response.status = 200
        /\ \A n \in DOMAIN response.files :
            /\ Len(response.files[n]) = Len(request.entries)
            /\ \A k \in 1..Len(response.files[n]) : response.files[n][k] # NoFile
    /\ \A n \in DOMAIN out : out[n] # NoMerged => Len(out[n]) = Len(request.entries)

\* C4 witness: output_type "both", the certificates were generated, the
\* first name tent too, and the second name tent failed.
C4_Witness ==
    /\ request.output_type = "both"
    /\ failure.at = "tents"
    /\ failure.record = 1
    /\ response.status = 500

\* C5: with a template missing, no call of fill_and_flatten is ever made
\* and the handler ends with status 500 and an error.
C5_MissingTemplateBeforeGeneration ==
    (\E t \in TemplateNames : templates[t] = Missing) =>
        /\ ffCalls = 0
        /\ hpc \in {"idle", "done"}
        /\ hpc = "done" => response = Response(500, "error", NoFiles)

\* C5 witness: a certificate batch whose second record is of the staff was
\* refused because Staff.pdf is missing.
C5_Witness ==
    /\ hpc = "done"
    /\ templates["Staff.pdf"] = Missing
    /\ templates["Participant.pdf"] # Missing
    /\ request.output_type = "certificates"
    /\ Len(request.entries) = 2
    /\ ~IsStaffSpelling(request.entries[1].role)
    /\ IsStaffSpelling(request.entries[2].role)
    /\ response.status = 500

\* C7: the report says of each template whether its file exists and of
\* each expected font whether it is a key of FONTS; ready is true, and the
\* status 200, exactly when the three templates exist, else 500, whatever
\* fonts are missing.
C7_HealthReportMatches ==
    health # NoHealth =>
        /\ \A t \in TemplateNames : (health.templates[t] = "OK") <=> (templates[t] # Missing)
        /\ DOMAIN health.fonts = ExpectedFonts
        /\ \A f \in ExpectedFonts : (health.fonts[f] = "loaded") <=> (f \in FONTS)
        /\ health.ready <=> (\A t \in TemplateNames : templates[t] # Missing)
        /\ health.status = IF health.ready THEN 200 ELSE 500

\* C7 witness: a report that is ready, with status 200, and marks a font
\* missing.
C7_Witness ==
    /\ health.status = 200
    /\ health.ready
    /\ health.fonts[MuseoSans_700] = "MISSING"
    /\ health.fonts[MuseoSlab_700] = "loaded"

\* C2: a page at output_path has been through bake(): it has no
\* annotation, so no interactive field, and no form definition, whether
\* FONTS is empty or not.
C2_OutputPageFlattened ==
    files["out"] # NoFile =>
        /\ files["out"].annots = <<>>
        /\ ~files["out"].acroform

\* C2 witness: with an empty font table, a template with a form definition
\* and two widgets that have an appearance has been written to output_path.
C2_Witness ==
    /\ pc = "done"
    /\ FONTS = {}
    /\ template.acroform
    /\ Len(files["out"].content) = 2
    /\ \A i \in 1..Len(template.annots) : template.annots[i].widget

\* C3: after the fill loop the widgets named in field_values hold exactly
\* the supplied value, every other annotation is as the template has it,
\* and a key that names no widget has raised nothing.
C3_FilledFieldsAreTemplateFieldsInValues ==
    pc = "save1" =>
        /\ raised = NoExc
        /\ Len(doc.annots) = Len(template.annots)
        /\ \A i \in 1..Len(doc.annots) :
            IF template.annots[i].widget /\ template.annots[i].T \in DOMAIN field_values
            THEN doc.annots[i].value = field_values[template.annots[i].T]
            ELSE doc.annots[i] = template.annots[i]

\* C3 witness: the fill loop ran with a key that names no widget of the
\* template, a widget that was filled and a widget that was not.
C3_Witness ==
    /\ pc = "save1"
    /\ \E n \in DOMAIN field_values : \A i \in 1..Len(template.annots) : template.annots[i].T # n
    /\ \E i \in 1..Len(doc.annots) : doc.annots[i].value # <<>>
    /\ \E i \in 1..Len(doc.annots) : doc.annots[i].widget /\ doc.annots[i] = template.annots[i]

\* C6: whatever subset of the expected fonts is loaded, fill_and_flatten
\* raises only for a missing template or a failed write, and when it is
\* done the page is at output_path; in the document it bakes, a field whose
\* intended font is not loaded has the stream it was saved with, while a
\* field whose intended font is loaded and whose stream has a font-select
\* instruction selects the intended font.
C6_MissingFontIsNoError ==
    /\ raised \in {NoExc, "FileNotFoundError", "OSError"}
    /\ raised = "FileNotFoundError" => template = Missing
    /\ pc = "done" => (raised = NoExc /\ files["out"] \notin {NoFile, Partial})
    /\ pc = "bake" =>
        \A i \in 1..Len(saved.annots) :
            LET before == saved.annots[i]
                after == files[bake_src].annots[i]
            IN  before.T \in DOMAIN widget_fonts =>
                    IF widget_fonts[before.T][1] \notin FONTS
                    THEN after = before
                    ELSE (before.ap = "stream" /\ TfMatches(before.data) # {}) =>
                            /\ TfMatches(after.data) # {}
                            /\ FontNameOf(after.data) = widget_fonts[before.T][1]

\* C6 witness: with some fonts loaded and some not, the document to bake
\* has a filled field left on the fallback font and a field rewritten to
\* its intended font.
C6_Witness ==
    /\ pc = "bake"
    /\ FONTS # {}
    /\ \E i \in 1..Len(saved.annots) :
        /\ saved.annots[i].value # <<>>
        /\ widget_fonts[saved.annots[i].T][1] \in ExpectedFonts \ FONTS
        /\ FontNameOf(files[bake_src].annots[i].data) = Helv
    /\ \E i \in 1..Len(saved.annots) :
        /\ saved.annots[i].value # <<>>
        /\ widget_fonts[saved.annots[i].T][1] \in FONTS
        /\ FontNameOf(files[bake_src].annots[i].data) = widget_fonts[saved.annots[i].T][1]

\* C9: a turn of the patch loop raises nothing and goes on to the next
\* annotation; the annotation it was at is as it was or has its stream
\* rewritten by the patch, and the other annotations are as they were.
C9_PatchStepNeverRaises ==
    [][(pc = "patch" /\ idx <= Len(writer.annots)) =>
        /\ raised' = NoExc
        /\ pc' = "patch"
        /\ idx' = idx + 1
        /\ Len(writer'.annots) = Len(writer.annots)
        /\ \A i \in 1..Len(writer.annots) : i # idx => writer'.annots[i] = writer.annots[i]
        /\ \/ writer'.annots[idx] = writer.annots[idx]
           \/ /\ writer.annots[idx].ap = "stream"
              /\ writer'.annots[idx] =
                    [writer.annots[idx] EXCEPT
                        !.data = PatchStream(@, widget_fonts[writer.annots[idx].T][1],
                                                widget_fonts[writer.annots[idx].T][2])]]_vars

\* C9 witness: the loop has passed an annotation whose stream cannot be
\* read and whose font is loaded, and has then rewritten another stream.
C9_Witness ==
    /\ pc = "patch"
    /\ idx = 3
    /\ writer.annots[1].ap = "unreadable"
    /\ widget_fonts[writer.annots[1].T][1] \in FONTS
    /\ writer.annots[2] # saved.annots[2]

\* ------------------------------------------------------------ SpecPatch

\* Bound: the streams are built of at most MaxPieces pieces.
MaxPieces == 3

\* Pieces of rendering streams: font-select instructions as fitz and the
\* templates write them, fragments of them, and other instructions.
Pieces ==
    { <<"/", "H", "e", "l", "v", " ", "1", "2", " ", "T", "f">>,
      <<"/", "F", "-", "1", " ", "9", ".", "5", "\n", "T", "f">>,
      <<" ", "2", " ", "5", " ", "T", "d", " ">>,
      <<"/", "H", "e", "l", "v">>,
      <<" ", "0", " ", "T", "f">>,
      <<"q", "\n">> }

RECURSIVE StreamsOf(_)
StreamsOf(n) ==
    IF n = 0 THEN {<<>>}
    ELSE StreamsOf(n - 1) \cup {s \o p : s \in StreamsOf(n - 1), p \in Pieces}

\* Nominal sizes of a /DA string, in tenths.
FontSizes == {0, 95, 240}

InitPatch ==
    /\ stream \in StreamsOf(MaxPieces)
    /\ intended_font \in ExpectedFonts
    /\ font_size \in FontSizes
    /\ fixed = NotYet
    /\ refixed = NotYet
    /\ FONTS = ExpectedFonts
    /\ PageIdle
    /\ templates = [t \in TemplateNames |-> Missing]
    /\ BatchIdle
    /\ health = NoHealth

PatchOnce ==
    /\ fixed = NotYet
    /\ fixed' = PatchStream(stream, intended_font, font_size)
    /\ UNCHANGED <<stream, intended_font, font_size, refixed, FONTS, pageVars, templates, batchVars, health>>

PatchAgain ==
    /\ fixed # NotYet
    /\ refixed = NotYet
    /\ refixed' = PatchStream(fixed, intended_font, font_size)
    /\ UNCHANGED <<stream, intended_font, font_size, fixed, FONTS, pageVars, templates, batchVars, health>>

NextPatch == PatchOnce \/ PatchAgain

SpecPatch == InitPatch /\ [][NextPatch]_vars

\* C8: patching the result of a patch again, with the same font and size,
\* gives the result of the first patch, byte for byte.
C8_PatchIdempotent == refixed # NotYet => refixed = fixed

\* C8 witness: a stream with two font-select instructions was patched twice
\* and the first patch changed it.
C8_Witness ==
    /\ refixed # NotYet
    /\ fixed # stream
    /\ Cardinality(TfMatches(stream)) >= 2

\* C10 as stated: a rewrite leaves the font name of the font-select
\* instruction, and every byte outside that instruction's size operand and
\* the position instruction's horizontal operand, as they were.
C10_FontNameKept ==
    (fixed # NotYet /\ fixed # stream) =>
        /\ FontNameOf(fixed) = FontNameOf(stream)
        /\ LET p == Min(TfMatches(stream))
               q == Min(TfMatches(fixed))
           IN  Without(fixed, q, TfMatchEnd(fixed, q))
                   = Without(stream, p, TfMatchEnd(stream, p))

\* C10 amended: a rewrite replaces the first font-select instruction by
\* "/<intended font> <nominal size> Tf" and changes nothing else: the bytes
\* before and after that instruction, and with them every position
\* instruction (both operands) and every clip/state instruction, are as
\* they were.
C10_OnlyFirstFontSelectReplaced ==
    (fixed # NotYet /\ fixed # stream) =>
        LET p == Min(TfMatches(stream))
            e == TfMatchEnd(stream, p)
            r == TfInstruction(intended_font, font_size)
        IN  /\ SubSeq(fixed, 1, p - 1) = SubSeq(stream, 1, p - 1)
            /\ SubSeq(fixed, p, p + Len(r) - 1) = r
            /\ SubSeq(fixed, p + Len(r), Len(fixed)) = SubSeq(stream, e, Len(stream))
            /\ FontNameOf(fixed) = intended_font
            /\ PositionOperands(fixed) = PositionOperands(stream)

\* C10 witness: a stream with a position instruction and a second
\* font-select instruction was rewritten, and its font name changed.
C10_Witness ==
    /\ fixed # NotYet
    /\ fixed # stream
    /\ Cardinality(TfMatches(stream)) >= 2
    /\ Len(PositionOperands(stream)) >= 1
    /\ FontNameOf(fixed) # FontNameOf(stream)

\* -------------------------------------------------------------- SpecFit

\* A text field of a template with the width of its rectangle (/Rect): a
\* widget whose appearance is the one Widget.update() wrote for an empty
\* value.
FieldInRect(name, font, size, width) ==
    [widget |-> TRUE, T |-> name, font |-> font, size |-> size, value |-> <<>>,
     ap |-> "stream", data |-> WidgetAppearance(size, <<>>), rect_width |-> width]

\* "Christopher Grove Wewikit Lodge"
ChristopherGrove ==
    <<"C", "h", "r", "i", "s", "t", "o", "p", "h", "e", "r", " ", "G", "r", "o", "v",
      "e", " ", "W", "e", "w", "i", "k", "i", "t", " ", "L", "o", "d", "g", "e">>

\* The templates of one field: two fonts, nominal sizes 14 and 24, and
\* rectangles 60 and 200 units wide.
FitTemplates ==
    {Document("Template.pdf", <<FieldInRect("Name", f, s, w)>>) :
        f \in {MuseoSlab_700, MuseoSans_700}, s \in {140, 240}, w \in {60, 200}}

\* One call of fill_and_flatten for a template of one field in its
\* rectangle, with a short and a long name.
InitFit ==
    /\ FONTS \in {{}, {MuseoSlab_700}, ExpectedFonts}
    /\ template \in FitTemplates
    /\ field_values \in {CertValues(n, SectionText) : n \in {Ann, ChristopherGrove}}
    /\ pc = "open"
    /\ doc = Closed
    /\ widget_fonts = <<>>
    /\ writer = Closed
    /\ idx = 0
    /\ files = [p \in PagePaths |-> NoFile]
    /\ bake_src = NoPath
    /\ raised = NoExc
    /\ saved = Closed
    /\ steps = <<>>
    /\ PatchIdle
    /\ templates = [t \in TemplateNames |-> Missing]
    /\ BatchIdle
    /\ health = NoHealth

SpecFit == InitFit /\ [][NextPage]_vars

\* The value of a decimal digit.
DigitValue(c) == (CHOOSE j \in 1..10 : Digits[j] = c) - 1

\* The number a string of digits writes.
RECURSIVE IntOf(_)
IntOf(d) == IF d = <<>> THEN 0 ELSE 10 * IntOf(SubSeq(d, 1, Len(d) - 1)) + DigitValue(d[Len(d)])

\* The size operand of the first font-select instruction of s, in tenths:
\* "24" and "24.0" are 240, "9.5" is 95.
TfSizeOf(s) ==
    LET p == Min(TfMatches(s))
        b == SpaceRunEnd(s, NameRunEnd(s, p + 1))
        num == SubSeq(s, b, NumRunEnd(s, b) - 1)
        dots == {k \in 1..Len(num) : num[k] = "."}
    IN  IF dots = {} THEN 10 * IntOf(num)
        ELSE 10 * IntOf(SubSeq(num, 1, Min(dots) - 1))
                + (IF Min(dots) < Len(num) THEN DigitValue(num[Min(dots) + 1]) ELSE 0)

\* Without a width table the width of a text is
\* character-count x size x 0.55; the text fits a rectangle when that is at
\* most the rectangle's width less the margin of 4 units. size is in tenths.
TextFits(text, size, width) == Len(text) * size * 55 <= (width - 4) * 1000

\* The floors a size may be configured not to go below: 8 and 14 units.
FitFloors == {80, 140}

\* C11: the size of the font-select instruction of a filled field in the
\* document that is baked lies between the floor and the field's nominal
\* size, the text fits the rectangle at that size unless the size is the
\* floor, and no larger whole-unit size up to the nominal size fits.
C11_WrittenSizeFits ==
    pc = "bake" =>
        \A i \in 1..Len(files[bake_src].annots) :
            LET a == files[bake_src].annots[i]
                written == TfSizeOf(a.data)
            IN  (a.value # <<>> /\ TfMatches(a.data) # {}) =>
                    \A floor \in {f \in FitFloors : f <= a.size} :
                        /\ floor <= written
                        /\ written <= a.size
                        /\ TextFits(a.value, written, a.rect_width) \/ written = floor
                        /\ \A larger \in {z \in (written + 1)..a.size : z % 10 = 0} :
                                ~TextFits(a.value, larger, a.rect_width)

\* The annotations of document d whose stream is not the one saved to tmp1:
\* the streams the patch loop has rewritten.
Rewritten(d) ==
    {i \in 1..Len(d.annots) : d.annots[i].data # saved.annots[i].data}

\* C12: from the registration on, every key of FONTS is among the fonts of
\* the page's resources: in the document saved, in the one the patch loop
\* works on, in the one baked and in the page written; a stream the loop
\* has rewritten selects a font that is a key of FONTS and is among those
\* resources; and no turn of the patch loop and no bake comes before the
\* registration.
C12_PatchedFontsResolve ==
    /\ pc \in {"fill", "save1"} => FONTS \subseteq doc.fonts
    /\ pc = "branch" => FONTS \subseteq files["tmp1"].fonts
    /\ pc = "patch" =>
        /\ FONTS \subseteq writer.fonts
        /\ \A i \in Rewritten(writer) : FontNameOf(writer.annots[i].data) \in FONTS \cap writer.fonts
    /\ pc = "bake" =>
        /\ FONTS \subseteq files[bake_src].fonts
        /\ \A i \in Rewritten(files[bake_src]) :
            FontNameOf(files[bake_src].annots[i].data) \in FONTS \cap files[bake_src].fonts
    /\ pc = "done" =>
        /\ FONTS \subseteq files["out"].fonts
        /\ \A k \in 1..Len(files["out"].content) :
            LET c == files["out"].content[k]
            IN  \/ \E i \in 1..Len(saved.annots) :
                        saved.annots[i].T = c.T /\ saved.annots[i].data = c.data
                \/ FontNameOf(c.data) \in FONTS \cap files["out"].fonts
    /\ \A k \in 1..Len(steps) :
        steps[k] \in {"patch", "bake"} => \E j \in 1..(k - 1) : steps[j] = "register"

\* C12 witness: with some fonts loaded and some not, a page was written
\* whose content has a stream rewritten from the fallback font to a loaded
\* font.
C12_Witness ==
    /\ pc = "done"
    /\ FONTS # {}
    /\ FONTS # ExpectedFonts
    /\ \E k \in 1..Len(files["out"].content) :
        LET c == files["out"].content[k]
        IN  /\ TfMatches(c.data) # {}
            /\ FontNameOf(c.data) \in FONTS
            /\ \E i \in 1..Len(saved.annots) :
                /\ saved.annots[i].T = c.T
                /\ TfMatches(saved.annots[i].data) # {}
                /\ FontNameOf(saved.annots[i].data) = Helv

\* -------------------------------------------------------------- SpecPar

\* The template and the field values of record e of a batch, and the names
\* of its page files and of its merged document.
ParTemplate(kind, e) ==
    templates[IF kind = "certificates" THEN CertTemplate(e) ELSE "SLS_Name_Tent.pdf"]

ParValues(kind, e) ==
    IF kind = "certificates" THEN CertValues(e.name, SectionText) ELSE TentValuesOf(e)

ParPageFile(kind, n) ==
    IF kind = "certificates"
    THEN <<"cert_0000.pdf", "cert_0001.pdf">>[n + 1]
    ELSE <<"tent_0000.pdf", "tent_0001.pdf">>[n + 1]

ParOutFile(kind) == IF kind = "certificates" THEN "Certificates.pdf" ELSE "Name_Tents.pdf"

\* tempfile.TemporaryDirectory(): mkdtemp() makes a directory at a name at
\* which there is none.
mkdtemp(f) == {d \in DirNames : f[<<d, ".">>].owner = 0}

\* A plausible slip: the name of the temporary file is drawn without
\* looking whether a file of that name exists.
NamedTemporaryFileAnyName(f) == {"tmp"} \X TmpNames

\* tempfile.NamedTemporaryFile(suffix=".pdf", delete=False): the file is
\* created (O_EXCL) at a name at which there is none.
NamedTemporaryFile(f) == {<<"tmp", n>> : n \in {m \in TmpNames : f[<<"tmp", m>>].owner = 0}}

\* The end of a TemporaryDirectory: the directory and its files are removed.
RemoveDir(f, d) == [p \in Paths |-> IF p[1] = d THEN NoEntry ELSE f[p]]

\* The requests of SpecPar: output_type and the records.
ParRequests ==
    { [kind |-> "tents",
       entries |-> << [name |-> Ann, lodge |-> Wewikit, role |-> <<"S", "T", "A", "F", "F">>] >>],
      [kind |-> "certificates",
       entries |-> << [name |-> Bob, lodge |-> Wewikit,
                       role |-> <<"P", "a", "r", "t", "i", "c", "i", "p", "a", "n", "t">>],
                      [name |-> Ann, lodge |-> Wewikit, role |-> <<"S", "t", "a", "f", "f">>] >>] }

InitPar ==
    /\ FONTS \in {{}, ExpectedFonts}
    /\ templates = [t \in TemplateNames |-> TemplateLayout(t)]
    /\ BatchIdle
    /\ health = NoHealth
    /\ PageIdle
    /\ PatchIdle

\* What a step of a batch leaves alone.
parFrame ==
    <<patchVars, FONTS, pageVars, templates, health,
      request, hpc, loop_i, pages, tmpfiles, out, response, ffCalls, failure>>

\* The locals of batch b at pc next; the history says whether it touched a
\* file of another batch (at path p, NoParPath for none).
ParStep(b, next, p) ==
    [proc[b] EXCEPT
        !.pc = next,
        !.foreign = @ \/ (p # NoParPath /\ fs[p].owner \notin {0, b})]

\* An exception leaves the try block of generate(): both temporary
\* directories are removed on the way out, the response has status 500.
ParRaise(b, exc, p) ==
    /\ proc' = [proc EXCEPT ![b] =
            [ParStep(b, "failed", p) EXCEPT !.exc = exc, !.gdir = "none", !.hdir = "none"]]
    /\ fs' = RemoveDir(RemoveDir(fs, proc[b].gdir), proc[b].hdir)

\* generate() up to the try block.
Par_Receive(b) ==
    /\ UNCHANGED parFrame
    /\ proc[b].pc = "idle"
    /\ \E req \in ParRequests :
        proc' = [proc EXCEPT ![b].pc = "mkhdir", ![b].kind = req.kind, ![b].entries = req.entries]
    /\ UNCHANGED fs

\* with tempfile.TemporaryDirectory() as tmpdir: of generate()
Par_MkHandlerDir(b) ==
    /\ UNCHANGED parFrame
    /\ proc[b].pc = "mkhdir"
    /\ \E d \in mkdtemp(fs) :
        /\ fs' = [fs EXCEPT ![<<d, ".">>] = File(b, <<>>)]
        /\ proc' = [proc EXCEPT ![b] = [ParStep(b, "mkgdir", NoParPath) EXCEPT !.hdir = d]]

\* with tempfile.TemporaryDirectory() as tmpdir: of the generator
Par_MkGeneratorDir(b) ==
    /\ UNCHANGED parFrame
    /\ proc[b].pc = "mkgdir"
    /\ \E d \in mkdtemp(fs) :
        /\ fs' = [fs EXCEPT ![<<d, ".">>] = File(b, <<>>)]
        /\ proc' = [proc EXCEPT ![b] = [ParStep(b, "loop", NoParPath) EXCEPT !.gdir = d, !.i = 0]]

\* fill_and_flatten up to tmp1 = NamedTemporaryFile(...): the template is
\* opened, the fonts are registered, the widgets filled, the file created.
Par_CreateTmp1(b) ==
    /\ UNCHANGED parFrame
    /\ proc[b].pc = "loop"
    /\ proc[b].i < Len(proc[b].entries)
    /\ \E n \in NamedTemporaryFile(fs) :
        LET e == proc[b].entries[proc[b].i + 1]
        IN  /\ fs' = [fs EXCEPT ![n] = File(b, <<>>)]
            /\ proc' = [proc EXCEPT ![b] =
                    [ParStep(b, "save1", n) EXCEPT
                        !.tmp1 = n,
                        !.doc = FillWidgets(RegisterFonts(ParTemplate(proc[b].kind, e), FONTS),
                                            ParValues(proc[b].kind, e))]]

\* doc.save(tmp1.name); doc.close(); if FONTS: ... else: bake_src = tmp1.name
Par_SaveTmp1(b) ==
    /\ UNCHANGED parFrame
    /\ proc[b].pc = "save1"
    /\ fs' = [fs EXCEPT ![proc[b].tmp1] = File(b, <<proc[b].doc>>)]
    /\ proc' = [proc EXCEPT ![b] =
            [ParStep(b, IF FONTS # {} THEN "read1" ELSE "bake", proc[b].tmp1) EXCEPT
                !.doc = Closed,
                !.bake_src = IF FONTS # {} THEN NoParPath ELSE proc[b].tmp1]]

\* reader = PdfReader(tmp1.name); writer.append(reader); the patch loop
Par_ReadTmp1(b) ==
    /\ UNCHANGED parFrame
    /\ proc[b].pc = "read1"
    /\ LET f == fs[proc[b].tmp1]
           e == proc[b].entries[proc[b].i + 1]
       IN  IF f.owner = 0 THEN ParRaise(b, "FileNotFoundError", proc[b].tmp1)
           ELSE IF f.pages = <<>> THEN ParRaise(b, "PdfReadError", proc[b].tmp1)
           ELSE /\ proc' = [proc EXCEPT ![b] =
                        [ParStep(b, "create2", proc[b].tmp1) EXCEPT
                            !.doc = PatchAll(f.pages[1],
                                             WidgetFonts(ParTemplate(proc[b].kind, e)), FONTS)]]
                /\ UNCHANGED fs

\* tmp2 = tempfile.NamedTemporaryFile(suffix=".pdf", delete=False)
Par_CreateTmp2(b) ==
    /\ UNCHANGED parFrame
    /\ proc[b].pc = "create2"
    /\ \E n \in NamedTemporaryFile(fs) :
        /\ fs' = [fs EXCEPT ![n] = File(b, <<>>)]
        /\ proc' = [proc EXCEPT ![b] = [ParStep(b, "write2", n) EXCEPT !.tmp2 = n]]

\* with open(tmp2.name, "wb") as f: writer.write(f)
Par_WriteTmp2(b) ==
    /\ UNCHANGED parFrame
    /\ proc[b].pc = "write2"
    /\ fs' = [fs EXCEPT ![proc[b].tmp2] = File(b, <<proc[b].doc>>)]
    /\ proc' = [proc EXCEPT ![b] = [ParStep(b, "unlink1", proc[b].tmp2) EXCEPT !.doc = Closed]]

\* os.unlink(tmp1.name); bake_src = tmp2.name
Par_UnlinkTmp1(b) ==
    /\ UNCHANGED parFrame
    /\ proc[b].pc = "unlink1"
    /\ IF fs[proc[b].tmp1].owner = 0 THEN ParRaise(b, "FileNotFoundError", proc[b].tmp1)
       ELSE /\ fs' = [fs EXCEPT ![proc[b].tmp1] = NoEntry]
            /\ proc' = [proc EXCEPT ![b] =
                    [ParStep(b, "bake", proc[b].tmp1) EXCEPT
                        !.bake_src = proc[b].tmp2, !.tmp1 = NoParPath]]

\* doc3 = fitz.open(bake_src); doc3.bake(); doc3.save(output_path, ...)
Par_Bake(b) ==
    /\ UNCHANGED parFrame
    /\ proc[b].pc = "bake"
    /\ LET f == fs[proc[b].bake_src]
           page_path == <<proc[b].gdir, ParPageFile(proc[b].kind, proc[b].i)>>
       IN  IF f.owner = 0 THEN ParRaise(b, "FileNotFoundError", proc[b].bake_src)
           ELSE IF f.pages = <<>> THEN ParRaise(b, "FileDataError", proc[b].bake_src)
           ELSE /\ fs' = [fs EXCEPT ![page_path] = File(b, <<Bake(f.pages[1])>>)]
                /\ proc' = [proc EXCEPT ![b] =
                        [ParStep(b, "unlink_src", proc[b].bake_src) EXCEPT
                            !.pages = Append(@, page_path)]]

\* os.unlink(bake_src), and the next turn of the generator's loop
Par_UnlinkBakeSrc(b) ==
    /\ UNCHANGED parFrame
    /\ proc[b].pc = "unlink_src"
    /\ IF fs[proc[b].bake_src].owner = 0 THEN ParRaise(b, "FileNotFoundError", proc[b].bake_src)
       ELSE /\ fs' = [fs EXCEPT ![proc[b].bake_src] = NoEntry]
            /\ proc' = [proc EXCEPT ![b] =
                    [ParStep(b, "loop", proc[b].bake_src) EXCEPT
                        !.i = @ + 1, !.tmp1 = NoParPath, !.tmp2 = NoParPath,
                        !.bake_src = NoParPath]]

\* build_merged_pdf(pages, output_path) and the end of the generator's
\* temporary directory
Par_Merge(b) ==
    /\ UNCHANGED parFrame
    /\ proc[b].pc = "loop"
    /\ proc[b].i = Len(proc[b].entries)
    /\ LET out_path == <<proc[b].hdir, ParOutFile(proc[b].kind)>>
           merged == [k \in 1..Len(proc[b].pages) |-> fs[proc[b].pages[k]].pages[1]]
       IN  /\ fs' = RemoveDir([fs EXCEPT ![out_path] = File(b, merged)], proc[b].gdir)
           /\ proc' = [proc EXCEPT ![b] = [ParStep(b, "send", NoParPath) EXCEPT
                                                      !.pages = <<>>, !.gdir = "none"]]

\* send_file(...) and the end of the handler's temporary directory
Par_Send(b) ==
    /\ UNCHANGED parFrame
    /\ proc[b].pc = "send"
    /\ LET out_path == <<proc[b].hdir, ParOutFile(proc[b].kind)>>
       IN  /\ proc' = [proc EXCEPT ![b] =
                    [ParStep(b, "done", out_path) EXCEPT
                        !.sent = fs[out_path].pages, !.hdir = "none"]]
           /\ fs' = RemoveDir(fs, proc[b].hdir)

NextPar ==
    \/ \E b \in Batches : Par_Receive(b)
    \/ \E b \in Batches : Par_MkHandlerDir(b)
    \/ \E b \in Batches : Par_MkGeneratorDir(b)
    \/ \E b \in Batches : Par_CreateTmp1(b)
    \/ \E b \in Batches : Par_SaveTmp1(b)
    \/ \E b \in Batches : Par_ReadTmp1(b)
    \/ \E b \in Batches : Par_CreateTmp2(b)
    \/ \E b \in Batches : Par_WriteTmp2(b)
    \/ \E b \in Batches : Par_UnlinkTmp1(b)
    \/ \E b \in Batches : Par_Bake(b)
    \/ \E b \in Batches : Par_UnlinkBakeSrc(b)
    \/ \E b \in Batches : Par_Merge(b)
    \/ \E b \in Batches : Par_Send(b)

SpecPar == InitPar /\ [][NextPar]_vars

\* What the request of batch b gives when it is served alone: the page of
\* record k, and the document of a page per record.
AlonePage(b, k) ==
    fill_and_flatten(ParTemplate(proc[b].kind, proc[b].entries[k]),
                     ParValues(proc[b].kind, proc[b].entries[k]), FONTS, TRUE).page

Alone(b) == [k \in 1..Len(proc[b].entries) |-> AlonePage(b, k)]

\* The paths the thread of batch b holds: its directories, its temporary
\* files, its page files and its merged document.
LivePaths(b) ==
    {<<d, ".">> : d \in {proc[b].hdir, proc[b].gdir} \ {"none"}}
        \cup ({proc[b].tmp1, proc[b].tmp2, proc[b].bake_src} \ {NoParPath})
        \cup Range(proc[b].pages)
        \cup (IF proc[b].pc = "send" THEN {<<proc[b].hdir, ParOutFile(proc[b].kind)>>} ELSE {})

\* In every state of two batches served at a time: no batch has failed or
\* touched a file of the other; the paths a batch holds are files it wrote
\* itself, and no path is held by both; the page just written, the merged
\* document and the document sent are those of the batch served alone.
BatchesApart ==
    /\ \A b \in Batches : proc[b].pc # "failed" /\ ~proc[b].foreign
    /\ \A b \in Batches : \A p \in LivePaths(b) : fs[p].owner = b
    /\ \A b \in Batches : \A c \in Batches \ {b} : LivePaths(b) \cap LivePaths(c) = {}
    /\ \A b \in Batches :
            proc[b].pc = "unlink_src" =>
                fs[proc[b].pages[proc[b].i + 1]].pages = <<AlonePage(b, proc[b].i + 1)>>
    /\ \A b \in Batches :
            proc[b].pc = "send" =>
                fs[<<proc[b].hdir, ParOutFile(proc[b].kind)>>].pages = Alone(b)
    /\ \A b \in Batches : proc[b].pc = "done" => proc[b].sent = Alone(b)

\* C13: under every interleaving of the steps of two batches, each batch
\* works in directories and on temporary files of its own, reads and writes
\* no file of the other, and sends the document it would send when served
\* alone; and no step changes FONTS.
C13_BatchesDoNotInterfere == []BatchesApart /\ [][FONTS' = FONTS]_vars

\* C13 witness: with fonts loaded, batch 1 is at the second record of a
\* certificate batch holding both of its temporary files, while batch 2, a
\* name tent batch, has written its page and still holds its patched copy.
C13_Witness ==
    /\ FONTS # {}
    /\ proc[1].kind = "certificates"
    /\ proc[1].i = 1
    /\ proc[1].pc = "unlink1"
    /\ Len(proc[1].pages) = 1
    /\ proc[2].kind = "tents"
    /\ proc[2].pc = "unlink_src"
    /\ Len(proc[2].pages) = 1

\* The page of record e made from the template as it was installed, by a
\* call that knows of no other record.
FreshPage(kind, e) ==
    IF kind = "cert"
    THEN fill_and_flatten(TemplateLayout(CertTemplate(e)),
                          CertValues(e.name, request.section), FONTS, TRUE).page
    ELSE fill_and_flatten(TemplateLayout("SLS_Name_Tent.pdf"), TentValuesOf(e), FONTS, TRUE).page

\* C14: the template files are at all times as they were installed,
\* however many pages have been made from them; every page file of a batch
\* is the page a call on the installed template makes of its own record,
\* whatever records came before it; and once a merged document has been
\* written the page files it was made of are gone.
C14_TemplatesReadOnlyPagesFresh ==
    /\ \A t \in TemplateNames : templates[t] \in {Missing, TemplateLayout(t)}
    /\ ffCalls > 0 => \A t \in TemplateNames : templates[t] = TemplateLayout(t)
    /\ \A p \in DOMAIN tmpfiles : tmpfiles[p] = FreshPage(p[1], request.entries[p[2] + 1])
    /\ out["Certificates.pdf"] # NoMerged => \A p \in DOMAIN tmpfiles : p[1] # "cert"
    /\ out["Name_Tents.pdf"] # NoMerged => DOMAIN tmpfiles = {}
    /\ hpc \in {"respond", "done"} => DOMAIN tmpfiles = {}

\* C14 witness: the certificates of two staff records of different names
\* were merged, and the name tents of both, made from the one name tent
\* template, are on disk.
C14_Witness ==
    /\ hpc = "tents"
    /\ loop_i = 2
    /\ out["Certificates.pdf"] # NoMerged
    /\ DOMAIN tmpfiles = {PagePath("tent", 0), PagePath("tent", 1)}
    /\ request.entries[1].name # request.entries[2].name
    /\ IsStaff(request.entries[1])
    /\ IsStaff(request.entries[2])

\* The places of a step in the history of the call.
StepsAt(label) == {k \in 1..Len(steps) : steps[k] = label}

\* The steps of the two paths of a call that has returned: with fonts,
\* a turn of the patch loop per annotation; without, none.
PatchPath(n) ==
    <<"open", "register", "fill", "save tmp1", "read tmp1">> \o [k \in 1..n |-> "patch"]
        \o <<"write tmp2", "unlink tmp1", "bake", "save out", "unlink tmp2">>

PlainPath == <<"open", "register", "fill", "save tmp1", "no fonts", "bake", "save out", "unlink tmp1">>

\* C15: the branch is taken at most once, after the fill, and by FONTS
\* alone: with fonts the saved document is read back and its streams are
\* patched, without fonts no stream is patched; the page is written only
\* as the step right after bake(), bake() comes right after the end of
\* either path, no turn of the patch loop comes after bake(), and a call
\* that has returned has taken exactly the steps of one of the two paths.
C15_TwoPathsEndAtBake ==
    /\ Cardinality(StepsAt("read tmp1") \cup StepsAt("no fonts")) <= 1
    /\ \A k \in StepsAt("read tmp1") \cup StepsAt("no fonts") : steps[k - 1] = "save tmp1"
    /\ StepsAt("read tmp1") # {} => FONTS # {}
    /\ StepsAt("no fonts") # {} => FONTS = {} /\ StepsAt("patch") = {}
    /\ \A k \in StepsAt("patch") : steps[k - 1] \in {"read tmp1", "patch"}
    /\ \A k \in StepsAt("save out") : steps[k - 1] = "bake"
    /\ \A k \in StepsAt("bake") : steps[k - 1] \in {"unlink tmp1", "no fonts"}
    /\ \A k \in StepsAt("bake") : \A j \in StepsAt("patch") : j < k
    /\ files["out"] # NoFile => StepsAt("save out") # {}
    /\ pc = "done" =>
        IF FONTS # {} THEN steps = PatchPath(Len(template.annots)) ELSE steps = PlainPath

\* C15 witness: with fonts loaded a page was written after two turns of
\* the patch loop, one of which rewrote a stream.
C15_Witness ==
    /\ pc = "done"
    /\ FONTS # {}
    /\ Cardinality(StepsAt("patch")) = 2
    /\ writer.annots # saved.annots
    /\ files["out"] \notin {NoFile, Partial}

\* Every step at label a comes before every step at label b.
Before(a, b) == \A j \in StepsAt(a) : \A k \in StepsAt(b) : j < k

\* C16: no temporary file is unlinked twice, or before it was written, or
\* before its last read (tmp1 by the reader, the file baked from by
\* bake()); and when fill_and_flatten has returned, tmp1 was unlinked once,
\* after the patched copy was written or, without fonts, after the bake,
\* tmp2 was unlinked once after the bake if it was made at all, neither
\* file exists and the page is at output_path.
C16_TempFilesDeletedOnce ==
    /\ Cardinality(StepsAt("unlink tmp1")) <= 1
    /\ Cardinality(StepsAt("unlink tmp2")) <= 1
    /\ Before("save tmp1", "unlink tmp1")
    /\ Before("write tmp2", "unlink tmp2")
    /\ StepsAt("unlink tmp1") # {} => StepsAt("save tmp1") # {}
    /\ StepsAt("unlink tmp2") # {} => StepsAt("write tmp2") # {}
    /\ Before("read tmp1", "unlink tmp1")
    /\ pc = "patch" => files["tmp1"] = saved
    /\ pc = "bake" => files[bake_src] \notin {NoFile, Partial}
    /\ bake_src # NoPath => Before("bake", "unlink " \o bake_src)
    /\ pc = "done" =>
        /\ files["tmp1"] = NoFile
        /\ files["tmp2"] = NoFile
        /\ files["out"] \notin {NoFile, Partial}
        /\ Cardinality(StepsAt("unlink tmp1")) = 1
        /\ IF FONTS # {}
           THEN /\ Cardinality(StepsAt("unlink tmp2")) = 1
                /\ Before("write tmp2", "unlink tmp1")
                /\ Before("unlink tmp1", "bake")
                /\ Before("bake", "unlink tmp2")
           ELSE /\ StepsAt("write tmp2") = {}
                /\ StepsAt("unlink tmp2") = {}
                /\ Before("bake", "unlink tmp1")

\* C16 witness: with fonts loaded, a call on a template with an annotation
\* has returned after unlinking both of its temporary files.
C16_Witness ==
    /\ pc = "done"
    /\ FONTS # {}
    /\ Len(template.annots) >= 1
    /\ StepsAt("unlink tmp1") # {}
    /\ StepsAt("unlink tmp2") # {}
    /\ files = [p \in PagePaths |-> IF p = "out" THEN Bake(writer) ELSE NoFile]

====
